---- MODULE Spec2Model ----
(***************************************************************************)
(* A model of the py-evm VM orchestrator (evm/vm/base.py), the Frontier    *)
(* message/transaction validator (evm/vm/forks/frontier/validation.py) and *)
(* the finalize_block of the Petersburg fork (eth/vm/forks/petersburg).    *)
(*                                                                         *)
(* Hashes are modelled as integers: a stored header carries its own hash,  *)
(* the digest of an uncle list and the root of an account view are         *)
(* computed by collision-free encodings (UnclesDigest, StateRoot).         *)
(* extra_data is a byte sequence; only its length is ever read.            *)
(* Python integers are unbounded, so no width is modelled.                 *)
(***************************************************************************)
EXTENDS Integers, Sequences, FiniteSets, TLC

VARIABLES
    headers,    \* chaindb: the stored block headers
    states,     \* chaindb: the stored account views, looked up by state root
    block,      \* VM.block: the in-progress block (header, transactions, uncles, receipts)
    temp,       \* the scope of state_in_temp_block: position, temporary state, snapshot
    create,     \* the frame of a create_block call: position and local variables
    account_db, \* PetersburgVM.state.account_db: the account view of the VM's state
    finalized,  \* how many times state.finalize_block ran on the in-progress block
    last        \* the last call made on the VM: operation, inputs, outcome

vars == <<headers, states, block, temp, create, account_db, finalized, last>>

----------------------------------------------------------------------------
(* Bounds of the model *)

MaxTs == 3          \* timestamps of candidate blocks and uncles: 0..MaxTs
MaxNum == 2         \* block numbers of candidate blocks and uncles: 0..MaxNum
MaxBal == 4         \* account balances drawn for the validator: 0..MaxBal
MaxTxs == 2         \* transactions a VM applies to its in-progress block
MaxMutations == 2   \* state mutations the body of a temporary scope performs
BlockGasLimit == 4  \* gas_limit of the headers the model starts from

----------------------------------------------------------------------------
(* Reserved values *)

GENESIS_PARENT_HASH == 0
MAX_UNCLES == 2
MAX_PREV_HEADER_DEPTH == 2
MaxExtraData == 32
GAS_LIMIT_ADJUSTMENT_FACTOR == 2

\* The hashes of the headers of the model, a hash that no stored header has,
\* and a state root that no stored account view has
Hash == [genesis |-> 1, first |-> 2, in_progress |-> 3, temp |-> 4,
         uncle_ok |-> 5, uncle_orphan |-> 6, uncle_gas |-> 7, imported |-> 8, missing |-> 9]
MissingHash == Hash.missing
MissingRoot == 0 - 1

Addresses == {"a1", "a2"}

ExtraData(n) == [i \in 1..n |-> 0]

----------------------------------------------------------------------------
(* Outcomes of a call: a normal return or the exception raised *)

Ok == [kind |-> "ok", msg |-> ""]
ValidationError(m) == [kind |-> "ValidationError", msg |-> m]
BlockNotFound == [kind |-> "BlockNotFound", msg |-> ""]
AttributeError(m) == [kind |-> "AttributeError", msg |-> m]

----------------------------------------------------------------------------
(* The chain store *)

HasHeader(hash) == \E h \in headers : h.hash = hash

get_block_header_by_hash(hash) == CHOOSE h \in headers : h.hash = hash

\* evm.utils.db.get_parent_header: the stored header with hash header.parent_hash
get_parent_header(header) == get_block_header_by_hash(header.parent_hash)

\* The fields of BlockHeader, in order
HeaderFields ==
    <<"parent_hash", "uncles_hash", "coinbase", "state_root", "transaction_root",
      "receipt_root", "bloom", "difficulty", "block_number", "gas_limit",
      "gas_used", "timestamp", "extra_data", "mix_hash", "nonce">>

HeaderHasAttr(name) ==
    \/ \E i \in 1..Len(HeaderFields) : HeaderFields[i] = name
    \/ name = "hash"

\* keccak(rlp.encode(uncles)): a collision-free digest of the list of uncles
RECURSIVE UnclesDigest(_)
UnclesDigest(uncles) ==
    IF uncles = <<>> THEN 0
    ELSE UnclesDigest(SubSeq(uncles, 1, Len(uncles) - 1)) * 10 + uncles[Len(uncles)].hash

\* The root of an account view: a collision-free digest of balances and nonces
AccountCode(acc, a) == acc[a].balance * 10 + acc[a].nonce
StateRoot(acc) == AccountCode(acc, "a1") * 1000 + AccountCode(acc, "a2")

\* The same lookups in a store that a running call has already written to
KeyExistsIn(store, root) == \E acc \in store : StateRoot(acc) = root

AccountsIn(store, root) == CHOOSE acc \in store : StateRoot(acc) = root

is_key_exists(root) == KeyExistsIn(states, root)

AccountsAt(root) == AccountsIn(states, root)

\* VM.get_prev_hashes: raised is TRUE when the lookup of last_block_hash fails
RECURSIVE PrevHashesFrom(_, _)
PrevHashesFrom(header, n) ==
    IF n = 0 THEN <<>>
    ELSE IF HasHeader(header.parent_hash)
         THEN <<header.hash>> \o PrevHashesFrom(get_parent_header(header), n - 1)
         ELSE <<header.hash>>

get_prev_hashes(last_block_hash) ==
    IF last_block_hash = GENESIS_PARENT_HASH THEN [raised |-> FALSE, hashes |-> <<>>]
    ELSE IF ~HasHeader(last_block_hash) THEN [raised |-> TRUE, hashes |-> <<>>]
    ELSE [raised |-> FALSE,
          hashes |-> PrevHashesFrom(get_block_header_by_hash(last_block_hash),
                                    MAX_PREV_HEADER_DEPTH)]

----------------------------------------------------------------------------
(* evm/vm/forks/frontier/validation.py *)

\* The state a VM builds from its in-progress block (VM.state, VM.get_state):
\* the account view at the header's state_root, gas_used of the last receipt,
\* gas_limit of the header
StateGasUsed(receipts) ==
    IF receipts = <<>> THEN 0 ELSE receipts[Len(receipts)].gas_used

VMState(blk) ==
    [accounts |-> AccountsAt(blk.header.state_root),
     gas_used |-> StateGasUsed(blk.receipts),
     gas_limit |-> blk.header.gas_limit]

\* Mutant of validate_frontier_message: a balance equal to the total cost is refused
validate_frontier_message_strict(vm_state, message) ==
    LET gas_cost == message.gas * message.gas_price
        sender_balance == vm_state.accounts[message.sender].balance
        total_cost == message.value + gas_cost
    IN  IF sender_balance < gas_cost
        THEN ValidationError("Sender account balance cannot afford txn gas")
        ELSE IF sender_balance <= total_cost
        THEN ValidationError("Sender account balance cannot afford txn")
        ELSE IF vm_state.gas_used + message.gas > vm_state.gas_limit
        THEN ValidationError("Message exceeds gas limit")
        ELSE Ok

\* Mutant of validate_frontier_message: the gas limit is not checked
validate_frontier_message_no_gas_limit(vm_state, message) ==
    LET gas_cost == message.gas * message.gas_price
        sender_balance == vm_state.accounts[message.sender].balance
        total_cost == message.value + gas_cost
    IN  IF sender_balance < gas_cost
        THEN ValidationError("Sender account balance cannot afford txn gas")
        ELSE IF sender_balance < total_cost
        THEN ValidationError("Sender account balance cannot afford txn")
        ELSE Ok

validate_frontier_message(vm_state, message) ==
    LET gas_cost == message.gas * message.gas_price
        sender_balance == vm_state.accounts[message.sender].balance
        total_cost == message.value + gas_cost
    IN  IF sender_balance < gas_cost
        THEN ValidationError("Sender account balance cannot afford txn gas")
        ELSE IF sender_balance < total_cost
        THEN ValidationError("Sender account balance cannot afford txn")
        ELSE IF vm_state.gas_used + message.gas > vm_state.gas_limit
        THEN ValidationError("Message exceeds gas limit")
        ELSE Ok

\* Mutant of validate_frontier_transaction: the nonce is compared before the
\* message is validated
validate_frontier_transaction_nonce_first(vm_state, transaction) ==
    IF vm_state.accounts[transaction.sender].nonce # transaction.nonce
    THEN ValidationError("Invalid transaction nonce")
    ELSE validate_frontier_message(vm_state, transaction)

\* Mutant of validate_frontier_transaction: the nonce is not compared
validate_frontier_transaction_no_nonce(vm_state, transaction) ==
    validate_frontier_message(vm_state, transaction)

validate_frontier_transaction(vm_state, transaction) ==
    LET m == validate_frontier_message(vm_state, transaction)
    IN  IF m # Ok THEN m
        ELSE IF vm_state.accounts[transaction.sender].nonce # transaction.nonce
        THEN ValidationError("Invalid transaction nonce")
        ELSE Ok

----------------------------------------------------------------------------
(* VM.validate_uncle and VM.validate_block *)

\* evm.validation.validate_gas_limit: the continuity of gas_limit with the parent's
validate_gas_limit(gas_limit, parent_gas_limit) ==
    LET diff == IF gas_limit >= parent_gas_limit THEN gas_limit - parent_gas_limit
                ELSE parent_gas_limit - gas_limit
    IN  diff <= parent_gas_limit \div GAS_LIMIT_ADJUSTMENT_FACTOR

\* evm.validation.validate_length_lte
validate_length_lte(value, maximum) == Len(value) <= maximum

\* Block.is_genesis
is_genesis(blk) == blk.header.block_number = 0

\* Mutant of validate_uncle: an uncle numbered like its block passes the first check
validate_uncle_same_number(blk, uncle) ==
    IF uncle.block_number > blk.header.block_number
    THEN ValidationError("Uncle number is higher than block number")
    ELSE IF ~HasHeader(uncle.parent_hash)
    THEN ValidationError("Uncle ancestor not found")
    ELSE LET parent_header == get_block_header_by_hash(uncle.parent_hash)
         IN  IF uncle.block_number # parent_header.block_number + 1
             THEN ValidationError("Uncle number is not one above ancestor's number")
             ELSE IF uncle.timestamp < parent_header.timestamp
             THEN ValidationError("Uncle timestamp is before ancestor's timestamp")
             ELSE IF uncle.gas_used > uncle.gas_limit
             THEN ValidationError("Uncle's gas usage is above the limit")
             ELSE Ok

validate_uncle(blk, uncle) ==
    IF uncle.block_number >= blk.header.block_number
    THEN ValidationError("Uncle number is higher than block number")
    ELSE IF ~HasHeader(uncle.parent_hash)
    THEN ValidationError("Uncle ancestor not found")
    ELSE LET parent_header == get_block_header_by_hash(uncle.parent_hash)
         IN  IF uncle.block_number # parent_header.block_number + 1
             THEN ValidationError("Uncle number is not one above ancestor's number")
             ELSE IF uncle.timestamp < parent_header.timestamp
             THEN ValidationError("Uncle timestamp is before ancestor's timestamp")
             ELSE IF uncle.gas_used > uncle.gas_limit
             THEN ValidationError("Uncle's gas usage is above the limit")
             ELSE Ok

\* Mutant of TimestampCheck: a timestamp equal to the parent's passes
TimestampCheckNoEqual(timestamp, parent_timestamp) ==
    IF timestamp < parent_timestamp
    THEN ValidationError("timestamp is before the parent block's timestamp")
    ELSE Ok

\* validate_block, the timestamp rule against the parent
TimestampCheck(timestamp, parent_timestamp) ==
    IF timestamp < parent_timestamp
    THEN ValidationError("timestamp is before the parent block's timestamp")
    ELSE IF timestamp = parent_timestamp
    THEN ValidationError("timestamp is equal to the parent block's timestamp")
    ELSE Ok

\* Mutant of ParentChecks: the length of extra_data is not checked
ParentChecksNoExtraData(blk) ==
    IF is_genesis(blk) THEN Ok
    ELSE IF ~HasHeader(blk.header.parent_hash) THEN BlockNotFound
    ELSE LET parent_header == get_parent_header(blk.header)
         IN  IF ~validate_gas_limit(blk.header.gas_limit, parent_header.gas_limit)
             THEN ValidationError("gas_limit")
             ELSE TimestampCheck(blk.header.timestamp, parent_header.timestamp)

\* validate_block, the checks of a non-genesis block against its parent
ParentChecks(blk) ==
    IF is_genesis(blk) THEN Ok
    ELSE IF ~HasHeader(blk.header.parent_hash) THEN BlockNotFound
    ELSE LET parent_header == get_parent_header(blk.header)
         IN  IF ~validate_gas_limit(blk.header.gas_limit, parent_header.gas_limit)
             THEN ValidationError("gas_limit")
             ELSE IF ~validate_length_lte(blk.header.extra_data, MaxExtraData)
             THEN ValidationError("BlockHeader.extra_data")
             ELSE TimestampCheck(blk.header.timestamp, parent_header.timestamp)

\* validate_block, the uncles: their number, then each in list order
RECURSIVE FirstUncleFailure(_, _, _)
FirstUncleFailure(blk, uncles, i) ==
    IF i > Len(uncles) THEN Ok
    ELSE LET r == validate_uncle(blk, uncles[i])
         IN  IF r # Ok THEN r ELSE FirstUncleFailure(blk, uncles, i + 1)

UncleChecks(blk) ==
    IF Len(blk.uncles) > MAX_UNCLES
    THEN ValidationError("Blocks may have a maximum of MAX_UNCLES uncles")
    ELSE FirstUncleFailure(blk, blk.uncles, 1)

\* validate_block, the state root: self.state is built from the VM's own block
StateRootCheckIn(blk, vm_block, store) ==
    IF get_prev_hashes(vm_block.header.parent_hash).raised THEN BlockNotFound
    ELSE IF ~KeyExistsIn(store, blk.header.state_root)
    THEN ValidationError("state_root was not found in the db")
    ELSE Ok

StateRootCheck(blk) == StateRootCheckIn(blk, block, states)

\* validate_block, the digest of the uncles: building the message of the error
\* reads block.header.uncle_hash
UnclesHashCheck(blk) ==
    IF UnclesDigest(blk.uncles) # blk.header.uncles_hash
    THEN IF HeaderHasAttr("uncle_hash")
         THEN ValidationError("uncles_hash and block uncles do not match")
         ELSE AttributeError("uncle_hash")
    ELSE Ok

\* validate_block on a VM whose in-progress block is vm_block, over the store
\* as a running call has left it
validate_block_in(blk, vm_block, store) ==
    IF ParentChecks(blk) # Ok THEN ParentChecks(blk)
    ELSE IF UncleChecks(blk) # Ok THEN UncleChecks(blk)
    ELSE IF StateRootCheckIn(blk, vm_block, store) # Ok
    THEN StateRootCheckIn(blk, vm_block, store)
    ELSE UnclesHashCheck(blk)

validate_block(blk) == validate_block_in(blk, block, states)

----------------------------------------------------------------------------
(* State.apply_transaction and VM.apply_transaction *)

\* What the interpreter may report for a message: the gas it consumed (never
\* more than the message's gas), whether it errored, whether the value transfer
\* survived (it always does when the message did not error; a transfer of
\* nothing counts as kept)
InterpreterResults(tx) ==
    {r \in [used : 0..tx.gas, is_error : BOOLEAN, moved : BOOLEAN] :
        (~r.is_error \/ tx.value = 0) => r.moved}

delta_balance(acc, a, d) == [acc EXCEPT ![a].balance = @ + d]

increment_nonce(acc, a) == [acc EXCEPT ![a].nonce = @ + 1]

\* The account view after the message of tx has run: gas bought, nonce
\* incremented, value moved if the interpreter kept it, unused gas refunded
ExecuteTransaction(acc, tx, interp) ==
    LET bought == increment_nonce(delta_balance(acc, tx.sender, 0 - tx.gas * tx.gas_price),
                                  tx.sender)
        moved == IF interp.moved
                 THEN delta_balance(delta_balance(bought, tx.sender, 0 - tx.value),
                                    tx.to, tx.value)
                 ELSE bought
    IN  delta_balance(moved, tx.sender, (tx.gas - interp.used) * tx.gas_price)

\* State.apply_transaction(state, transaction, block): validation failure, or
\* the computation, the updated block and the account view it is rooted at
StateApplyTransaction(vm_state, tx, blk, interp) ==
    LET v == validate_frontier_transaction(vm_state, tx)
        acc == ExecuteTransaction(vm_state.accounts, tx, interp)
        receipt == [gas_used |-> vm_state.gas_used + interp.used]
    IN  IF v # Ok
        THEN [outcome |-> v, accounts |-> vm_state.accounts, block |-> blk]
        ELSE [outcome |-> Ok,
              accounts |-> acc,
              block |-> [blk EXCEPT !.header.state_root = StateRoot(acc),
                                    !.header.gas_used = receipt.gas_used,
                                    !.transactions = Append(@, tx),
                                    !.receipts = Append(@, receipt)]]

----------------------------------------------------------------------------
(* The stores and blocks the specifications start from *)

Header(hash, parent_hash, number, timestamp, gas_limit, state_root) ==
    [hash |-> hash, parent_hash |-> parent_hash, block_number |-> number,
     timestamp |-> timestamp, gas_limit |-> gas_limit, gas_used |-> 0,
     extra_data |-> ExtraData(0), state_root |-> state_root,
     uncles_hash |-> UnclesDigest(<<>>), coinbase |-> "a1"]

Accounts(b1, b2) ==
    [a \in Addresses |-> [balance |-> IF a = "a1" THEN b1 ELSE b2, nonce |-> 0]]

GenesisAccounts == Accounts(6, 1)

GenesisHash == Hash.genesis
FirstHash == Hash.first
InProgressHash == Hash.in_progress
TempHash == Hash.temp

\* A chain of two stored headers, genesis and its child
StoredHeaders(acc) ==
    {Header(GenesisHash, GENESIS_PARENT_HASH, 0, 1, BlockGasLimit, StateRoot(acc)),
     Header(FirstHash, GenesisHash, 1, 2, BlockGasLimit, StateRoot(acc))}

\* The block a VM is constructed on: the empty child of the chain's head
InProgressBlock(acc) ==
    [header |-> Header(InProgressHash, FirstHash, 2, 3, BlockGasLimit, StateRoot(acc)),
     transactions |-> <<>>, uncles |-> <<>>, receipts |-> <<>>]

NoTemp == [pc |-> "idle"]

NoCreate == [pc |-> "idle"]

NoAccountDb == [a \in Addresses |-> [balance |-> 0, nonce |-> 0]]

NoCall == [op |-> "none"]

----------------------------------------------------------------------------
(* Specification SpecBlock: validate_block and validate_uncle applied to    *)
(* candidate blocks and uncles over a fixed chain store. Both only read the *)
(* VM, so every call is made on the VM as constructed.                      *)

UncleHeader(hash, parent_hash, number, timestamp, gas_used, gas_limit) ==
    [hash |-> hash, parent_hash |-> parent_hash, block_number |-> number,
     timestamp |-> timestamp, gas_limit |-> gas_limit, gas_used |-> gas_used]

\* The uncles a candidate block lists: a valid child of genesis, one whose
\* parent is not stored, one that used more gas than its limit
UncleOk == UncleHeader(Hash.uncle_ok, GenesisHash, 1, 1, 0, 1)
UncleOrphan == UncleHeader(Hash.uncle_orphan, MissingHash, 1, 1, 0, 1)
UncleGas == UncleHeader(Hash.uncle_gas, GenesisHash, 1, 1, 2, 1)
UncleChoices == {UncleOk, UncleOrphan, UncleGas}

UncleLists ==
    UNION {[1..n -> UncleChoices] : n \in 0..(MAX_UNCLES + 1)}

ParentHashes == {GENESIS_PARENT_HASH, GenesisHash, FirstHash, MissingHash}
GasLimits == {BlockGasLimit \div 4, BlockGasLimit, 2 * BlockGasLimit}
ExtraLengths == {MaxExtraData, MaxExtraData + 1}
UnclesHashes(uncles) ==
    {UnclesDigest(uncles), UnclesDigest(<<>>), UnclesDigest(<<UncleOk>>)}
StateRoots == {StateRoot(GenesisAccounts), MissingRoot}

CandidateBlock(parent_hash, number, timestamp, gas_limit, extra, state_root, uncles, uncles_hash) ==
    [header |-> [hash |-> InProgressHash, parent_hash |-> parent_hash,
                 block_number |-> number, timestamp |-> timestamp,
                 gas_limit |-> gas_limit, gas_used |-> 0,
                 extra_data |-> ExtraData(extra), state_root |-> state_root,
                 uncles_hash |-> uncles_hash, coinbase |-> "a1"],
     transactions |-> <<>>, uncles |-> uncles, receipts |-> <<>>]

InitBlock ==
    /\ headers = StoredHeaders(GenesisAccounts)
    /\ states = {GenesisAccounts}
    /\ block = InProgressBlock(GenesisAccounts)
    /\ temp = NoTemp
    /\ create = NoCreate
    /\ account_db = NoAccountDb
    /\ finalized = 0
    /\ last = NoCall

\* validate_block(block) on a candidate block
ValidateBlock ==
    /\ last = NoCall
    /\ \E parent_hash \in ParentHashes, number \in 0..MaxNum, timestamp \in 0..MaxTs,
       gas_limit \in GasLimits, extra \in ExtraLengths, state_root \in StateRoots,
       uncles \in UncleLists :
        \E uncles_hash \in UnclesHashes(uncles) :
            LET blk == CandidateBlock(parent_hash, number, timestamp, gas_limit,
                                      extra, state_root, uncles, uncles_hash)
            IN  /\ last' = [op |-> "validate_block", blk |-> blk,
                            outcome |-> validate_block(blk)]
                /\ UNCHANGED <<headers, states, block, temp, create, account_db, finalized>>

\* validate_uncle(block, uncle) on a candidate block number and uncle
ValidateUncle ==
    /\ last = NoCall
    /\ \E number \in 0..MaxNum, parent_hash \in ParentHashes \ {GENESIS_PARENT_HASH},
       uncle_number \in 0..MaxNum, timestamp \in 0..MaxTs,
       gas_used \in 0..2, gas_limit \in 1..2 :
        LET blk == CandidateBlock(FirstHash, number, MaxTs, BlockGasLimit,
                                  0, StateRoot(GenesisAccounts), <<>>, UnclesDigest(<<>>))
            uncle == UncleHeader(Hash.uncle_ok, parent_hash, uncle_number, timestamp,
                                 gas_used, gas_limit)
        IN  /\ last' = [op |-> "validate_uncle", blk |-> blk, uncle |-> uncle,
                        outcome |-> validate_uncle(blk, uncle)]
            /\ UNCHANGED <<headers, states, block, temp, create, account_db, finalized>>

NextBlock == ValidateBlock \/ ValidateUncle

SpecBlock == InitBlock /\ [][NextBlock]_vars

----------------------------------------------------------------------------
(* The block rules as the specification words them *)

ParentStored(blk) == HasHeader(blk.header.parent_hash)
ParentOf(blk) == get_block_header_by_hash(blk.header.parent_hash)

TimestampRule(blk) == blk.header.timestamp > ParentOf(blk).timestamp
GasLimitRule(blk) == validate_gas_limit(blk.header.gas_limit, ParentOf(blk).gas_limit)
ExtraDataRule(blk) == Len(blk.header.extra_data) <= 32
UncleCountRule(blk) == Len(blk.uncles) <= 2
UnclesHashRule(blk) == blk.header.uncles_hash = UnclesDigest(blk.uncles)
StateRootRule(blk) == is_key_exists(blk.header.state_root)

\* The five ways an uncle fails
UncleRejected(blk, uncle) ==
    \/ uncle.block_number >= blk.header.block_number
    \/ ~HasHeader(uncle.parent_hash)
    \/ /\ HasHeader(uncle.parent_hash)
       /\ \/ uncle.block_number
                # get_block_header_by_hash(uncle.parent_hash).block_number + 1
          \/ uncle.timestamp < get_block_header_by_hash(uncle.parent_hash).timestamp
    \/ uncle.gas_used > uncle.gas_limit

UnclesRule(blk) == \A i \in 1..Len(blk.uncles) : ~UncleRejected(blk, blk.uncles[i])

ValidatedBlock == last.op = "validate_block"
ValidatedUncle == last.op = "validate_uncle"

----------------------------------------------------------------------------
(* Claims about validate_block and validate_uncle, under SpecBlock *)

\* C2 as stated: a non-genesis block whose parent is stored is accepted if and
\* only if timestamp, extra_data, uncle count, uncles_hash and state_root pass.
C2_AcceptsIffFiveRules ==
    (ValidatedBlock /\ ~is_genesis(last.blk) /\ ParentStored(last.blk)) =>
        (last.outcome = Ok <=>
            /\ TimestampRule(last.blk)
            /\ ExtraDataRule(last.blk)
            /\ UncleCountRule(last.blk)
            /\ UnclesHashRule(last.blk)
            /\ StateRootRule(last.blk))

\* C2 amended: a non-genesis block whose parent is stored is accepted if and
\* only if its timestamp is strictly greater than the parent's, extra_data is
\* at most 32 bytes, it has at most 2 uncles, uncles_hash is the digest of the
\* uncles, state_root is in the store, gas_limit passes the continuity check
\* against the parent's and every uncle passes validate_uncle.
C2_AcceptsIffAllRules ==
    (ValidatedBlock /\ ~is_genesis(last.blk) /\ ParentStored(last.blk)) =>
        (last.outcome = Ok <=>
            /\ TimestampRule(last.blk)
            /\ ExtraDataRule(last.blk)
            /\ UncleCountRule(last.blk)
            /\ UnclesHashRule(last.blk)
            /\ StateRootRule(last.blk)
            /\ GasLimitRule(last.blk)
            /\ UnclesRule(last.blk))

\* C2 witness: a non-genesis block listing uncles was accepted
C2_Witness ==
    /\ ValidatedBlock
    /\ ~is_genesis(last.blk)
    /\ Len(last.blk.uncles) = 2
    /\ last.outcome = Ok

C4_UnclesHashMismatchIsValidationError ==
    (/\ ValidatedBlock
     /\ is_genesis(last.blk) \/
            (/\ ParentStored(last.blk)
             /\ TimestampRule(last.blk)
             /\ GasLimitRule(last.blk)
             /\ ExtraDataRule(last.blk))
     /\ UncleCountRule(last.blk)
     /\ UnclesRule(last.blk)
     /\ StateRootRule(last.blk)
     /\ ~UnclesHashRule(last.blk))
    => last.outcome.kind = "ValidationError"

\* C5 as stated: a genesis block is validated without its parent (no lookup,
\* no rule relative to it) and is accepted even when its state_root is not in
\* the store: whatever its parent_hash, timestamp, gas_limit, extra_data and
\* state_root, it is accepted when its uncles and uncles_hash pass.
C5_GenesisAcceptedWithoutStateRoot ==
    (/\ ValidatedBlock
     /\ is_genesis(last.blk)
     /\ UncleCountRule(last.blk)
     /\ UnclesRule(last.blk)
     /\ UnclesHashRule(last.blk))
    => last.outcome = Ok

\* C6: validate_uncle raises ValidationError exactly when the uncle's number is
\* not below the block's, its parent is not stored, its number is not its
\* parent's plus one, its timestamp is lower than its parent's, or its gas_used
\* exceeds its gas_limit; it accepts otherwise.
C6_ValidateUncleExactly ==
    ValidatedUncle =>
        /\ last.outcome.kind = "ValidationError" <=> UncleRejected(last.blk, last.uncle)
        /\ last.outcome = Ok <=> ~UncleRejected(last.blk, last.uncle)

\* C6 witness: an uncle below its block whose parent is not stored was rejected
\* with a validation failure
C6_Witness ==
    /\ ValidatedUncle
    /\ last.uncle.block_number < last.blk.header.block_number
    /\ ~HasHeader(last.uncle.parent_hash)
    /\ last.outcome = ValidationError("Uncle ancestor not found")

----------------------------------------------------------------------------
(* Specification SpecMsg: the Frontier validator applied to candidate       *)
(* messages and transactions over the state of a VM whose block already     *)
(* holds some gas. The validator only reads the state, so every call is     *)
(* made on the VM as constructed.                                           *)

MessageGas == 0..3
MessageGasPrice == 0..2
MessageValue == 0..2
TransactionNonce == 0..2

Transaction(sender, to, nonce, gas, gas_price, value) ==
    [sender |-> sender, to |-> to, nonce |-> nonce, gas |-> gas,
     gas_price |-> gas_price, value |-> value]

\* A block that already holds one transaction that used gas_used gas
BlockWithGasUsed(acc, gas_used) ==
    IF gas_used = 0 THEN InProgressBlock(acc)
    ELSE [InProgressBlock(acc) EXCEPT
            !.header.gas_used = gas_used,
            !.transactions = <<Transaction("a2", "a1", 0, gas_used, 0, 0)>>,
            !.receipts = <<[gas_used |-> gas_used]>>]

InitMsg ==
    \E balance \in 0..MaxBal, nonce \in 0..1, gas_used \in 0..BlockGasLimit :
        LET acc == [Accounts(balance, 1) EXCEPT !["a1"].nonce = nonce]
        IN  /\ headers = StoredHeaders(GenesisAccounts)
            /\ states = {GenesisAccounts, acc}
            /\ block = BlockWithGasUsed(acc, gas_used)
            /\ temp = NoTemp
            /\ create = NoCreate
            /\ account_db = NoAccountDb
            /\ finalized = 0
            /\ last = NoCall

\* validate_frontier_message(vm.state, message)
ValidateMessage ==
    /\ last = NoCall
    /\ \E sender \in Addresses, gas \in MessageGas, gas_price \in MessageGasPrice,
          value \in MessageValue :
        LET message == [sender |-> sender, to |-> "a2", gas |-> gas,
                        gas_price |-> gas_price, value |-> value]
        IN  /\ last' = [op |-> "validate_message", message |-> message,
                        outcome |-> validate_frontier_message(VMState(block), message)]
            /\ UNCHANGED <<headers, states, block, temp, create, account_db, finalized>>

\* validate_frontier_transaction(vm.state, transaction)
ValidateTransaction ==
    /\ last = NoCall
    /\ \E sender \in Addresses, nonce \in TransactionNonce, gas \in MessageGas,
          gas_price \in MessageGasPrice, value \in MessageValue :
        LET tx == Transaction(sender, "a2", nonce, gas, gas_price, value)
        IN  /\ last' = [op |-> "validate_transaction", tx |-> tx,
                        outcome |-> validate_frontier_transaction(VMState(block), tx)]
            /\ UNCHANGED <<headers, states, block, temp, create, account_db, finalized>>

NextMsg == ValidateMessage \/ ValidateTransaction

SpecMsg == InitMsg /\ [][NextMsg]_vars

----------------------------------------------------------------------------
(* Claims about the validator, under SpecMsg *)

SenderBalance(m) == VMState(block).accounts[m.sender].balance
SenderNonce(m) == VMState(block).accounts[m.sender].nonce
TotalCost(m) == m.gas * m.gas_price + m.value
FundsCover(m) == SenderBalance(m) >= TotalCost(m)
GasFits(m) == VMState(block).gas_used + m.gas <= VMState(block).gas_limit

InsufficientForGas == ValidationError("Sender account balance cannot afford txn gas")
InsufficientForValue == ValidationError("Sender account balance cannot afford txn")
InvalidNonce == ValidationError("Invalid transaction nonce")

\* C7: validate_message passes if and only if the sender's balance is at least
\* gas*gas_price + value and gas_used + gas does not exceed gas_limit; a balance
\* equal to gas*gas_price + value passes; a balance one unit lower fails with
\* insufficient funds, for gas when it is below gas*gas_price, else for value.
C7_ValidateMessageExactly ==
    last.op = "validate_message" =>
        LET m == last.message
        IN  /\ last.outcome = Ok <=> (FundsCover(m) /\ GasFits(m))
            /\ (SenderBalance(m) = TotalCost(m) /\ GasFits(m)) => last.outcome = Ok
            /\ SenderBalance(m) + 1 = TotalCost(m) =>
                  last.outcome = IF SenderBalance(m) < m.gas * m.gas_price
                                 THEN InsufficientForGas
                                 ELSE InsufficientForValue

\* C7 witness: a message whose gas and value both cost something passed with
\* the sender's balance exactly the total cost
C7_Witness ==
    /\ last.op = "validate_message"
    /\ last.message.gas * last.message.gas_price > 0
    /\ last.message.value > 0
    /\ SenderBalance(last.message) = TotalCost(last.message)
    /\ last.outcome = Ok

\* C8 as stated: validate_transaction fails with the invalid-nonce error if
\* and only if the transaction's nonce differs from the sender's; with equal
\* nonces it succeeds when the funds and gas-limit checks pass.
C8_InvalidNonceIffNonceDiffers ==
    last.op = "validate_transaction" =>
        /\ last.outcome = InvalidNonce <=> last.tx.nonce # SenderNonce(last.tx)
        /\ (last.tx.nonce = SenderNonce(last.tx) /\ FundsCover(last.tx) /\ GasFits(last.tx))
              => last.outcome = Ok

\* C8 amended: validate_transaction fails with the invalid-nonce error if and
\* only if the nonce differs from the sender's and the funds and gas-limit
\* checks pass (those checks run first and report their own failure); whenever
\* the nonce differs it fails; with equal nonces it succeeds exactly when the
\* funds and gas-limit checks pass.
C8_InvalidNonceAfterMessageChecks ==
    last.op = "validate_transaction" =>
        /\ last.outcome = InvalidNonce <=>
              (/\ last.tx.nonce # SenderNonce(last.tx)
               /\ FundsCover(last.tx) /\ GasFits(last.tx))
        /\ last.tx.nonce # SenderNonce(last.tx) => last.outcome.kind = "ValidationError"
        /\ last.tx.nonce = SenderNonce(last.tx) =>
              (last.outcome = Ok <=> (FundsCover(last.tx) /\ GasFits(last.tx)))

\* C8 witness: a transaction that passes the funds and gas-limit checks was
\* refused for its nonce
C8_Witness ==
    /\ last.op = "validate_transaction"
    /\ last.tx.nonce # SenderNonce(last.tx)
    /\ FundsCover(last.tx) /\ GasFits(last.tx)
    /\ last.tx.value > 0
    /\ last.outcome = InvalidNonce

----------------------------------------------------------------------------
(* Specification Spec: a VM applying transactions to its in-progress block  *)

TxGas == {1, 3}
TxGasPrice == {1}
TxValue == {0, 1}

\* Transactions to a2, from a1 and from a2 itself
Transactions ==
    {Transaction(sender, "a2", nonce, gas, gas_price, value) :
        sender \in Addresses, nonce \in 0..MaxTxs,
        gas \in TxGas, gas_price \in TxGasPrice, value \in TxValue}

Init ==
    /\ headers = StoredHeaders(GenesisAccounts)
    /\ states = {GenesisAccounts}
    /\ block = InProgressBlock(GenesisAccounts)
    /\ temp = NoTemp
    /\ create = NoCreate
    /\ account_db = NoAccountDb
    /\ finalized = 0
    /\ last = NoCall

\* VM.apply_transaction(transaction): a validation failure leaves the VM as it
\* was; otherwise the VM takes the updated block and the store its state
ApplyTransaction ==
    /\ Len(block.transactions) < MaxTxs
    /\ \E tx \in Transactions :
        \E interp \in InterpreterResults(tx) :
            LET r == StateApplyTransaction(VMState(block), tx, block, interp)
            IN  IF r.outcome # Ok
                THEN /\ last' = [op |-> "apply_transaction", tx |-> tx,
                                 outcome |-> r.outcome, before |-> block]
                     /\ UNCHANGED <<headers, states, block, temp, create, account_db, finalized>>
                ELSE /\ block' = r.block
                     /\ states' = states \cup {r.accounts}
                     /\ last' = [op |-> "apply_transaction", tx |-> tx,
                                 outcome |-> Ok, before |-> block, interp |-> interp]
                     /\ UNCHANGED <<headers, temp, create, account_db, finalized>>

Next == ApplyTransaction

Spec == Init /\ [][Next]_vars

----------------------------------------------------------------------------
(* Claims about apply_transaction, under Spec *)

\* C9: after any sequence of apply_transaction calls the running gas_used of
\* the block (in its header and in its last receipt) never exceeds gas_limit.
C9_GasUsedWithinLimit ==
    /\ block.header.gas_used <= block.header.gas_limit
    /\ StateGasUsed(block.receipts) <= block.header.gas_limit

\* C9 witness: a transaction was refused for the gas limit after the block had
\* taken gas from an earlier one
C9_Witness ==
    /\ last.op = "apply_transaction"
    /\ last.outcome = ValidationError("Message exceeds gas limit")
    /\ block.header.gas_used > 0
    /\ block.header.gas_used + last.tx.gas > block.header.gas_limit

Applied == last.op = "apply_transaction" /\ last.outcome = Ok

\* C10: a transaction that passes validation, whether or not the interpreter
\* reports an error, costs its sender the gas used once (and the value, if it
\* moved to another account), raises the sender's nonce by one, adds one
\* receipt and one transaction to the block the VM now holds; it was not
\* applied by this VM before and would not pass validation again.
C10_AppliedExactlyOnce ==
    Applied =>
        LET tx == last.tx
            pre == VMState(last.before).accounts
            post == VMState(block).accounts
            paid == last.interp.used * tx.gas_price
                    + (IF last.interp.moved /\ tx.to # tx.sender THEN tx.value ELSE 0)
        IN  /\ post[tx.sender].balance = pre[tx.sender].balance - paid
            /\ post[tx.sender].nonce = pre[tx.sender].nonce + 1
            /\ block.receipts = Append(last.before.receipts,
                                       [gas_used |-> last.before.header.gas_used
                                                     + last.interp.used])
            /\ block.transactions = Append(last.before.transactions, tx)
            /\ block.header.state_root = StateRoot(post)
            /\ \A i \in 1..Len(last.before.transactions) :
                  last.before.transactions[i] # tx
            /\ validate_frontier_transaction(VMState(block), tx).kind = "ValidationError"

\* C10 witness: a transaction whose message errored after using gas was applied
C10_Witness ==
    /\ Applied
    /\ last.interp.is_error
    /\ last.interp.used > 0
    /\ last.tx.gas_price > 0
    /\ Len(block.transactions) = 2

----------------------------------------------------------------------------
(* Specification SpecTemp: the scope of VM.state_in_temp_block              *)

\* evm.utils.headers.generate_header_from_parent_header: the empty successor
\* of parent_header, rooted at the parent's state
generate_header_from_parent_header(parent_header, coinbase, timestamp) ==
    [hash |-> TempHash, parent_hash |-> parent_header.hash,
     block_number |-> parent_header.block_number + 1, timestamp |-> timestamp,
     gas_limit |-> parent_header.gas_limit, gas_used |-> 0,
     extra_data |-> ExtraData(0), state_root |-> parent_header.state_root,
     uncles_hash |-> UnclesDigest(<<>>), coinbase |-> coinbase]

generate_block_from_parent_header_and_coinbase(parent_header, coinbase) ==
    [header |-> generate_header_from_parent_header(parent_header, coinbase,
                                                   parent_header.timestamp + 1),
     transactions |-> <<>>, uncles |-> <<>>, receipts |-> <<>>]

\* State.snapshot and State.revert: the snapshot holds the account view of the
\* moment it was taken, and revert restores exactly that view
snapshot(state) == state.accounts

revert(state, snap) == [state EXCEPT !.accounts = snap]

InitTemp ==
    \E b1 \in 0..MaxBal, b2 \in 0..MaxBal :
        /\ headers = StoredHeaders(GenesisAccounts)
        /\ states = {GenesisAccounts, Accounts(b1, b2)}
        /\ block = InProgressBlock(Accounts(b1, b2))
        /\ temp = NoTemp
        /\ create = NoCreate
        /\ account_db = NoAccountDb
        /\ finalized = 0
        /\ last = NoCall

\* state_in_temp_block up to its yield: the temporary state and its snapshot
TempEnter ==
    /\ temp.pc \in {"idle", "exited"}
    /\ LET header == block.header
           temp_block == generate_block_from_parent_header_and_coinbase(header,
                                                                         header.coinbase)
           previous_hashes == get_prev_hashes(block.header.parent_hash)
           state == [accounts |-> AccountsAt(temp_block.header.state_root),
                     prev_hashes |-> <<header.hash>> \o previous_hashes.hashes,
                     block_number |-> temp_block.header.block_number]
       IN  IF previous_hashes.raised
           THEN /\ last' = [op |-> "state_in_temp_block", outcome |-> BlockNotFound]
                /\ UNCHANGED <<temp, create, account_db, finalized>>
           ELSE /\ temp' = [pc |-> "body", state |-> state,
                            snapshot |-> snapshot(state), mutations |-> 0]
                /\ last' = [op |-> "state_in_temp_block", outcome |-> Ok]
    /\ UNCHANGED <<headers, states, block, create, account_db, finalized>>

\* The body of the with statement changes a balance of the temporary state
TempMutate ==
    /\ temp.pc = "body"
    /\ temp.mutations < MaxMutations
    /\ \E a \in Addresses, d \in {0 - 1, 1} :
        /\ temp.state.accounts[a].balance + d >= 0
        /\ temp' = [temp EXCEPT !.state.accounts = delta_balance(@, a, d),
                                !.mutations = @ + 1]
    /\ UNCHANGED <<headers, states, block, create, account_db, finalized, last>>

\* The body returns: the generator resumes after its yield and reverts
TempReturn ==
    /\ temp.pc = "body"
    /\ temp' = [temp EXCEPT !.pc = "exited",
                            !.state = revert(temp.state, temp.snapshot)]
    /\ last' = [op |-> "exit_temp_block", exit |-> "return"]
    /\ UNCHANGED <<headers, states, block, create, account_db, finalized>>

\* The body raises: the error is thrown into the generator at its yield, which
\* no try statement encloses, so the generator ends there without reverting
TempRaise ==
    /\ temp.pc = "body"
    /\ temp' = [temp EXCEPT !.pc = "exited"]
    /\ last' = [op |-> "exit_temp_block", exit |-> "raise"]
    /\ UNCHANGED <<headers, states, block, create, account_db, finalized>>

NextTemp == TempEnter \/ TempMutate \/ TempReturn \/ TempRaise

SpecTemp == InitTemp /\ [][NextTemp]_vars

----------------------------------------------------------------------------
(* Claims about state_in_temp_block, under SpecTemp *)

\* C1 as stated: on every exit of the scope, by return or by error, the
\* account view of the temporary state is the view of the snapshot taken on
\* entry.
C1_RevertedOnEveryExit ==
    temp.pc = "exited" => temp.state.accounts = temp.snapshot

----------------------------------------------------------------------------
(* VM.pack_block, VM.mine_block, VM.import_block                            *)

\* Keyword arguments are functions from names to values. A keyword that may
\* be left out is drawn as a set holding no value or one.
Kwarg(name, values) == [n \in {name : v \in values} |-> CHOOSE v \in values : TRUE]

KnownFields == {HeaderFields[i] : i \in 1..Len(HeaderFields)}

pop(kwargs, name) == [n \in DOMAIN kwargs \ {name} |-> kwargs[n]]

setdefault(kwargs, name, value) ==
    IF name \in DOMAIN kwargs THEN kwargs ELSE kwargs @@ (name :> value)

\* setattr(header, key, value) for every item of the overrides
SetAttrs(header, fields) ==
    [k \in DOMAIN header |-> IF k \in DOMAIN fields THEN fields[k] ELSE header[k]]

\* pack_block, the uncles: assigned to the block before the names are checked;
\* their digest becomes the uncles_hash override unless the caller gave one
PackUncles(blk, kwargs) ==
    IF "uncles" \in DOMAIN kwargs
    THEN [block |-> [blk EXCEPT !.uncles = kwargs["uncles"]],
          kwargs |-> setdefault(pop(kwargs, "uncles"), "uncles_hash",
                                UnclesDigest(kwargs["uncles"]))]
    ELSE [block |-> blk, kwargs |-> kwargs]

\* Mutant of pack_block: the names are checked only after the overrides are set
pack_block_set_first(blk, kwargs, store) ==
    LET uncled == PackUncles(blk, kwargs)
        unknown_fields == DOMAIN uncled.kwargs \ KnownFields
        packed == [uncled.block EXCEPT !.header = SetAttrs(@, uncled.kwargs)]
    IN  IF unknown_fields # {}
        THEN [outcome |-> AttributeError("Unable to set fields in block header"),
              block |-> packed]
        ELSE [outcome |-> validate_block_in(packed, packed, store), block |-> packed]

\* pack_block(block, **kwargs) on the VM's own block, which it changes in
\* place: the outcome and the block the VM holds afterwards
pack_block(blk, kwargs, store) ==
    LET uncled == PackUncles(blk, kwargs)
        unknown_fields == DOMAIN uncled.kwargs \ KnownFields
        packed == [uncled.block EXCEPT !.header = SetAttrs(@, uncled.kwargs)]
    IN  IF unknown_fields # {}
        THEN [outcome |-> AttributeError("Unable to set fields in block header"),
              block |-> uncled.block]
        ELSE [outcome |-> validate_block_in(packed, packed, store), block |-> packed]

\* The rewards of the VM's fork, in units the balances of the model are in
StateBlockReward == 2
NephewReward == 1

\* State.finalize_block(block): the coinbase of the block is credited with the
\* block reward and a bonus for each uncle, and the block is rooted at the
\* account view that results. The coinbases of the uncles are accounts the
\* model does not follow.
finalize_block(acc, blk) ==
    LET block_reward == StateBlockReward + Len(blk.uncles) * NephewReward
        rewarded == delta_balance(acc, blk.header.coinbase, block_reward)
    IN  [accounts |-> rewarded,
         block |-> [blk EXCEPT !.header.state_root = StateRoot(rewarded)]]

\* A VM in the middle of a call: its block, the store, the finalize count
VMOf(blk, store, n) == [block |-> blk, states |-> store, finalized |-> n]

\* mine_block(**kwargs): pack the VM's block, then finalize it unless it is the
\* genesis block
mine_block(vm, kwargs) ==
    LET packed == pack_block(vm.block, kwargs, vm.states)
        state == AccountsIn(vm.states, packed.block.header.state_root)
        fin == finalize_block(state, packed.block)
    IN  IF packed.outcome # Ok
        THEN [outcome |-> packed.outcome, vm |-> [vm EXCEPT !.block = packed.block]]
        ELSE IF packed.block.header.block_number = 0
        THEN [outcome |-> Ok, vm |-> [vm EXCEPT !.block = packed.block]]
        ELSE [outcome |-> Ok,
              vm |-> VMOf(fin.block, vm.states \cup {fin.accounts}, vm.finalized + 1)]

\* configure_header(**header_params): the named fields of the in-progress header
configure_header(header, header_params) == SetAttrs(header, header_params)

VMStateIn(blk, store) ==
    [accounts |-> AccountsIn(store, blk.header.state_root),
     gas_used |-> StateGasUsed(blk.receipts),
     gas_limit |-> blk.header.gas_limit]

\* VM.apply_transaction(transaction) for each transaction of a list, stopping
\* at the first that fails validation
RECURSIVE ApplyTransactions(_, _, _)
ApplyTransactions(vm, txs, interps) ==
    IF txs = <<>> THEN [outcome |-> Ok, vm |-> vm]
    ELSE LET r == StateApplyTransaction(VMStateIn(vm.block, vm.states), Head(txs),
                                        vm.block, Head(interps))
         IN  IF r.outcome # Ok THEN [outcome |-> r.outcome, vm |-> vm]
             ELSE ApplyTransactions(VMOf(r.block, vm.states \cup {r.accounts}, vm.finalized),
                                    Tail(txs), Tail(interps))

\* import_block(block): the header is configured from the imported block, its
\* transactions are applied in order, its uncles are taken, the block is mined.
\* (mix_hash and nonce are configured too; the model's header leaves them out.)
import_block(vm, imported, interps) ==
    LET header_params == [coinbase |-> imported.header.coinbase,
                          gas_limit |-> imported.header.gas_limit,
                          timestamp |-> imported.header.timestamp,
                          extra_data |-> imported.header.extra_data,
                          uncles_hash |-> UnclesDigest(imported.uncles)]
        configured == [vm EXCEPT !.block.header = configure_header(@, header_params)]
        applied == ApplyTransactions(configured, imported.transactions, interps)
        uncled == [applied.vm EXCEPT !.block.uncles = imported.uncles]
    IN  IF applied.outcome # Ok THEN applied ELSE mine_block(uncled, <<>>)

----------------------------------------------------------------------------
(* Specification SpecMine: a VM packing, mining and importing               *)

MaxFinalize == 2    \* runs of finalize_block on the VM's in-progress block

\* The block of a VM constructed on the genesis header
GenesisBlock(acc) ==
    [header |-> Header(GenesisHash, GENESIS_PARENT_HASH, 0, 1, BlockGasLimit, StateRoot(acc)),
     transactions |-> <<>>, uncles |-> <<>>, receipts |-> <<>>]

\* Overrides of pack_block: a timestamp (the parent's, or a later one), a
\* digest of uncles, a name that is no header field, a list of uncles
PackKwargs ==
    {Kwarg("timestamp", ts) @@ Kwarg("uncles_hash", uh)
        @@ Kwarg("uncle_hash", bad) @@ Kwarg("uncles", un) :
        ts \in {{}, {2}, {4}},
        uh \in {{}, {UnclesDigest(<<UncleOk>>)}},
        bad \in {{}, {UnclesDigest(<<>>)}},
        un \in {{}, {<<UncleOk>>}}}

MineKwargs ==
    {Kwarg("timestamp", ts) @@ Kwarg("uncles", un) :
        ts \in {{}, {2}}, un \in {{}, {<<UncleOk>>}}}

\* Transactions of imported blocks: a1's first, and one whose nonce a1 never has
ImportTx(nonce) == Transaction("a1", "a2", nonce, 1, 1, 0)

ImportTxLists ==
    {<<>>, <<ImportTx(0)>>, <<ImportTx(0), ImportTx(5)>>}

ImportedBlocks ==
    {[header |-> [Header(Hash.imported, FirstHash, 2, ts, BlockGasLimit,
                         StateRoot(GenesisAccounts)) EXCEPT !.coinbase = "a2"],
      transactions |-> txs, uncles |-> un, receipts |-> <<>>] :
        ts \in {2, 4}, txs \in ImportTxLists, un \in {<<>>, <<UncleOk>>}}

\* What the interpreter reports for each transaction of a list
RECURSIVE InterpreterRuns(_)
InterpreterRuns(txs) ==
    IF txs = <<>> THEN {<<>>}
    ELSE {<<i>> \o rest : i \in InterpreterResults(Head(txs)),
                          rest \in InterpreterRuns(Tail(txs))}

InitMine ==
    /\ \/ /\ headers = StoredHeaders(GenesisAccounts)
          /\ block = InProgressBlock(GenesisAccounts)
       \/ /\ headers = {}
          /\ block = GenesisBlock(GenesisAccounts)
    /\ states = {GenesisAccounts}
    /\ temp = NoTemp
    /\ create = NoCreate
    /\ account_db = NoAccountDb
    /\ finalized = 0
    /\ last = NoCall

\* What a call leaves behind: the VM as the call found it and as it left it
Called(op, input, r) ==
    /\ block' = r.vm.block
    /\ states' = r.vm.states
    /\ finalized' = r.vm.finalized
    /\ last' = [op |-> op, input |-> input, outcome |-> r.outcome,
                before |-> VMOf(block, states, finalized)]
    /\ UNCHANGED <<headers, temp, create, account_db>>

PackBlock ==
    \E kwargs \in PackKwargs :
        LET packed == pack_block(block, kwargs, states)
        IN  Called("pack_block", kwargs,
                   [outcome |-> packed.outcome,
                    vm |-> VMOf(packed.block, states, finalized)])

MineBlock ==
    /\ finalized < MaxFinalize
    /\ \E kwargs \in MineKwargs :
        Called("mine_block", kwargs, mine_block(VMOf(block, states, finalized), kwargs))

ImportBlock ==
    /\ finalized < MaxFinalize
    /\ \E imported \in ImportedBlocks :
        \E interps \in InterpreterRuns(imported.transactions) :
            Called("import_block", imported,
                   import_block(VMOf(block, states, finalized), imported, interps))

NextMine == PackBlock \/ MineBlock \/ ImportBlock

SpecMine == InitMine /\ [][NextMine]_vars

----------------------------------------------------------------------------
(* Claims about pack_block, mine_block and import_block, under SpecMine *)

Packed == last.op = "pack_block"

\* The override names of a pack_block call: its keywords other than uncles
OverrideNames(kwargs) == DOMAIN kwargs \ {"uncles"}

\* The header pack_block is to leave when every override name is known: the
\* named fields take the given values, uncles_hash the digest of the uncles
\* given without one, every other field stays
PackedHeader(header, kwargs) ==
    [k \in DOMAIN header |->
        IF k \in OverrideNames(kwargs) THEN kwargs[k]
        ELSE IF k = "uncles_hash" /\ "uncles" \in DOMAIN kwargs
        THEN UnclesDigest(kwargs["uncles"])
        ELSE header[k]]

\* C11: pack_block called with an override name that is no header field fails
\* with a configuration error (AttributeError) and leaves every header field as
\* it was; called with known names only, it sets exactly those fields (and
\* uncles_hash from the uncles given with them), and returns the block if and
\* only if validate_block accepts the block so packed, failing with
\* validate_block's error otherwise.
C11_PackBlockOverrides ==
    Packed =>
        IF OverrideNames(last.input) \ KnownFields # {}
        THEN /\ last.outcome.kind = "AttributeError"
             /\ block.header = last.before.block.header
        ELSE /\ block.header = PackedHeader(last.before.block.header, last.input)
             /\ last.outcome = validate_block(block)

\* C11 witness: a call naming only a timestamp, other than the block's, set
\* it and returned the block validate_block accepted
C11_Witness ==
    /\ Packed
    /\ DOMAIN last.input = {"timestamp"}
    /\ last.input["timestamp"] # last.before.block.header.timestamp
    /\ block.header.timestamp = last.input["timestamp"]
    /\ last.outcome = Ok

\* C12: in every state of the VM's in-progress block, whatever pack_block,
\* mine_block and import_block calls were made and whether they failed,
\* header.uncles_hash is the digest of the block's uncles.
C12_UnclesHashMatchesUncles ==
    block.header.uncles_hash = UnclesDigest(block.uncles)

Mined == last.op = "mine_block" /\ last.outcome = Ok

\* C13: over any sequence of mine_block calls, finalize_block runs exactly once
\* on a non-genesis in-progress block and never on a genesis block: a genesis
\* block is returned as packed, a non-genesis block that was mined has been
\* finalized once, and no block is finalized (credited the reward) twice.
C13_FinalizedExactlyOnce ==
    /\ block.header.block_number = 0 => finalized = 0
    /\ (Mined /\ block.header.block_number # 0) => finalized = 1
    /\ finalized <= 1

FailedPartway ==
    /\ last.op \in {"pack_block", "import_block"}
    /\ last.outcome # Ok

\* The account view the VM's state is built on
StateOf(vm) == AccountsIn(vm.states, vm.block.header.state_root)

\* C19: when import_block or pack_block fails partway, the VM's in-progress
\* block (header fields, transactions, uncles) and its state are exactly what
\* they were before the call.
C19_FailedCallChangesNothing ==
    FailedPartway =>
        /\ block.header = last.before.block.header
        /\ block.transactions = last.before.block.transactions
        /\ block.uncles = last.before.block.uncles
        /\ StateOf(VMOf(block, states, finalized)) = StateOf(last.before)

----------------------------------------------------------------------------
(* Specification SpecHashes: get_prev_hashes applied to header stores that  *)
(* hold a chain from genesis, whole or with one header missing              *)

MaxChain == 5       \* headers of the longest chain a store holds

\* The header at height k - 1 of the chain: its hash is k, its parent's k - 1,
\* the parent of genesis being the sentinel
ChainHeader(k) ==
    Header(k, k - 1, k - 1, k, BlockGasLimit, StateRoot(GenesisAccounts))

ChainStores ==
    {{ChainHeader(k) : k \in (1..n) \ {gap}} : n \in 1..MaxChain, gap \in 0..MaxChain}

LastBlockHashes == 0..(MaxChain + 1)

InitHashes ==
    /\ headers \in ChainStores
    /\ states = {GenesisAccounts}
    /\ block = InProgressBlock(GenesisAccounts)
    /\ temp = NoTemp
    /\ create = NoCreate
    /\ account_db = NoAccountDb
    /\ finalized = 0
    /\ last = NoCall

\* VM.get_prev_hashes(last_block_hash, db)
GetPrevHashes ==
    /\ last = NoCall
    /\ \E last_block_hash \in LastBlockHashes :
        LET r == get_prev_hashes(last_block_hash)
        IN  /\ last' = [op |-> "get_prev_hashes", last_block_hash |-> last_block_hash,
                        outcome |-> IF r.raised THEN BlockNotFound ELSE Ok,
                        hashes |-> r.hashes]
            /\ UNCHANGED <<headers, states, block, temp, create, account_db, finalized>>

NextHashes == GetPrevHashes

SpecHashes == InitHashes /\ [][NextHashes]_vars

\* s walks the parent links from hash h, nearest first: it starts at the header
\* of h, each entry is stored and is the parent of the one before, and it ends
\* only at the depth limit or where the next parent is not stored (the parent
\* of genesis never is)
IsWalkFrom(h, s) ==
    /\ Len(s) <= MAX_PREV_HEADER_DEPTH
    /\ (h = GENESIS_PARENT_HASH \/ ~HasHeader(h)) => s = <<>>
    /\ (h # GENESIS_PARENT_HASH /\ HasHeader(h)) => (s # <<>> /\ s[1] = h)
    /\ \A i \in 1..Len(s) : HasHeader(s[i])
    /\ \A i \in 1..(Len(s) - 1) : s[i + 1] = get_block_header_by_hash(s[i]).parent_hash
    /\ (s # <<>> /\ Len(s) < MAX_PREV_HEADER_DEPTH) =>
            ~HasHeader(get_block_header_by_hash(s[Len(s)]).parent_hash)

\* C20: get_prev_hashes(last_block_hash) never raises; it returns the empty
\* sequence for the genesis parent-hash sentinel and otherwise the hashes
\* reached by following parent links from last_block_hash, nearest first, at
\* most MAX_PREV_HEADER_DEPTH of them, stopping early at genesis or at the
\* first lookup that fails, the lookup of last_block_hash itself included.
C20_PrevHashesNeverRaises ==
    last.op = "get_prev_hashes" =>
        /\ last.outcome = Ok
        /\ IsWalkFrom(last.last_block_hash, last.hashes)

----------------------------------------------------------------------------
(* VM.create_block: a block built from transactions and their witnesses     *)

\* A witness, and the entries written while a block is built, are dicts from
\* keys (state roots) to store entries (the account view kept under the key).
\* A caller's witness may hold under a key an entry that is not the key's.
EmptyDict == [k \in {} |-> GenesisAccounts]

\* Mutant of update: entries the dict already holds are kept
update_keeping(d, other) ==
    [k \in DOMAIN d \cup DOMAIN other |-> IF k \in DOMAIN d THEN d[k] ELSE other[k]]

\* dict.update(other): the entries of other replace those of the same key
update(d, other) ==
    [k \in DOMAIN d \cup DOMAIN other |-> IF k \in DOMAIN other THEN other[k] ELSE d[k]]

\* A lookup in a MemoryDB of a key it does not hold
KeyError == [kind |-> "KeyError", msg |-> ""]

\* computation.vm_state.access_logs.writes: the account view the transaction
\* left, under its root
Writes(acc) == [k \in {StateRoot(acc)} |-> acc]

\* The frame of create_block when the loop is entered; given keeps the
\* packages as the caller passed them
CreateFrame(packages, coinbase, parent_header) ==
    [pc |-> "loop", given |-> packages, packages |-> packages, i |-> 1,
     block |-> generate_block_from_parent_header_and_coinbase(parent_header, coinbase),
     recent_trie_nodes |-> EmptyDict, receipts |-> <<>>,
     attempts |-> <<>>, finalizes |-> <<>>, outcome |-> Ok]

\* What the loop records of a package it attempted: the transaction, what the
\* interpreter reported, the store and the account view it ran on, and the
\* locals after it
Attempt(f, transaction, interp, witness_db, accounts) ==
    [transaction |-> transaction, interp |-> interp, witness_db |-> witness_db,
     accounts |-> accounts, block |-> f.block, receipts |-> f.receipts,
     recent_trie_nodes |-> f.recent_trie_nodes]

\* Mutant of create_block_step: the result of an errored transaction is taken
\* like any other
create_block_step_no_skip(f, interp) ==
    LET package == f.packages[f.i]
        transaction_witness == update(package.witness, f.recent_trie_nodes)
        state_root == f.block.header.state_root
        vm_state == [accounts |-> transaction_witness[state_root],
                     gas_used |-> StateGasUsed(f.receipts),
                     gas_limit |-> f.block.header.gas_limit]
        r == StateApplyTransaction(vm_state, package.transaction, f.block, interp)
        updated == [f EXCEPT !.packages[f.i].witness = transaction_witness]
        taken == [updated EXCEPT !.block = r.block,
                                 !.receipts = r.block.receipts,
                                 !.recent_trie_nodes = update(@, Writes(r.accounts))]
    IN  IF state_root \notin DOMAIN transaction_witness
        THEN [updated EXCEPT !.pc = "raised", !.outcome = KeyError]
        ELSE IF r.outcome # Ok
        THEN [updated EXCEPT !.pc = "raised", !.outcome = r.outcome]
        ELSE [taken EXCEPT !.i = @ + 1,
                           !.attempts = Append(@, Attempt(taken, package.transaction, interp,
                                                          transaction_witness,
                                                          vm_state.accounts))]

\* One round of the loop of create_block, on package f.i: the witness takes
\* the entries written so far, the transaction is applied on a state over it,
\* and unless the computation errored the block, the receipts and the entries
\* written are carried on
create_block_step(f, interp) ==
    LET package == f.packages[f.i]
        transaction_witness == update(package.witness, f.recent_trie_nodes)
        state_root == f.block.header.state_root
        vm_state == [accounts |-> transaction_witness[state_root],
                     gas_used |-> StateGasUsed(f.receipts),
                     gas_limit |-> f.block.header.gas_limit]
        r == StateApplyTransaction(vm_state, package.transaction, f.block, interp)
        updated == [f EXCEPT !.packages[f.i].witness = transaction_witness]
        taken == IF ~interp.is_error
                 THEN [updated EXCEPT !.block = r.block,
                                      !.receipts = r.block.receipts,
                                      !.recent_trie_nodes = update(@, Writes(r.accounts))]
                 ELSE updated
    IN  IF state_root \notin DOMAIN transaction_witness
        THEN [updated EXCEPT !.pc = "raised", !.outcome = KeyError]
        ELSE IF r.outcome # Ok
        THEN [updated EXCEPT !.pc = "raised", !.outcome = r.outcome]
        ELSE [taken EXCEPT !.i = @ + 1,
                           !.attempts = Append(@, Attempt(taken, package.transaction, interp,
                                                          transaction_witness,
                                                          vm_state.accounts))]

\* create_block after the loop: finalize_block on a state over the entries
\* written while the block was built, and nothing else
create_block_finalize(f) ==
    LET witness_db == f.recent_trie_nodes
        state_root == f.block.header.state_root
        ran == [f EXCEPT !.finalizes = Append(@, [block |-> f.block,
                                                  witness_db |-> witness_db])]
    IN  IF state_root \notin DOMAIN witness_db
        THEN [ran EXCEPT !.pc = "raised", !.outcome = KeyError]
        ELSE [ran EXCEPT !.pc = "returned",
                         !.block = finalize_block(witness_db[state_root], f.block).block]

----------------------------------------------------------------------------
(* Specification SpecCreate: create_block on the child of the chain's head  *)

MaxPackages == 2    \* transaction packages given to create_block

\* a1 transfers 1 to a2; a2 spends 2 (gas and value), which it holds only
\* after the transfer
Transfer == Transaction("a1", "a2", 0, 1, 1, 1)
Spend == Transaction("a2", "a1", 0, 1, 1, 1)

\* The roots the block may have once Transfer has run without error
TransferRoots ==
    {StateRoot(ExecuteTransaction(GenesisAccounts, Transfer, interp)) :
        interp \in {x \in InterpreterResults(Transfer) : ~x.is_error}}

\* Witnesses: nothing; the parent's state under its root; the parent's state
\* under its root and, stale, under the roots Transfer leads to
ParentWitness == Writes(GenesisAccounts)
StaleWitness ==
    [k \in {StateRoot(GenesisAccounts)} \cup TransferRoots |-> GenesisAccounts]
Witnesses == {EmptyDict, ParentWitness, StaleWitness}

Packages == [transaction : {Transfer, Spend}, witness : Witnesses]

PackageLists == UNION {[1..n -> Packages] : n \in 0..MaxPackages}

InitCreate ==
    /\ headers = StoredHeaders(GenesisAccounts)
    /\ states = {GenesisAccounts}
    /\ block = InProgressBlock(GenesisAccounts)
    /\ temp = NoTemp
    /\ create = NoCreate
    /\ account_db = NoAccountDb
    /\ finalized = 0
    /\ last = NoCall

\* create_block(transaction_packages, prev_hashes, coinbase, parent_header) is
\* called; prev_hashes only reaches the execution context of the interpreter
CreateBlock ==
    /\ create.pc = "idle"
    /\ \E packages \in PackageLists, coinbase \in Addresses :
        create' = CreateFrame(packages, coinbase, get_block_header_by_hash(FirstHash))
    /\ UNCHANGED <<headers, states, block, temp, account_db, finalized, last>>

CreateBlockStep ==
    /\ create.pc = "loop"
    /\ create.i <= Len(create.packages)
    /\ \E interp \in InterpreterResults(create.packages[create.i].transaction) :
        create' = create_block_step(create, interp)
    /\ UNCHANGED <<headers, states, block, temp, account_db, finalized, last>>

CreateBlockFinalize ==
    /\ create.pc = "loop"
    /\ create.i > Len(create.packages)
    /\ create' = create_block_finalize(create)
    /\ UNCHANGED <<headers, states, block, temp, account_db, finalized, last>>

NextCreate == CreateBlock \/ CreateBlockStep \/ CreateBlockFinalize

SpecCreate == InitCreate /\ [][NextCreate]_vars

----------------------------------------------------------------------------
(* Claims about create_block, under SpecCreate *)

Errored(attempt) == attempt.interp.is_error
Succeeded(attempt) == ~attempt.interp.is_error

TransactionsOf(attempts) == [i \in 1..Len(attempts) |-> attempts[i].transaction]

RECURSIVE GasUsedBy(_)
GasUsedBy(attempts) ==
    IF attempts = <<>> THEN 0
    ELSE GasUsedBy(SubSeq(attempts, 1, Len(attempts) - 1))
            + attempts[Len(attempts)].interp.used

\* The block, receipts and written entries the loop held before attempt i
LocalsBefore(f, i) ==
    IF i = 1
    THEN [block |-> generate_block_from_parent_header_and_coinbase(
                        get_block_header_by_hash(FirstHash), f.block.header.coinbase),
          receipts |-> <<>>, recent_trie_nodes |-> EmptyDict]
    ELSE [block |-> f.attempts[i - 1].block, receipts |-> f.attempts[i - 1].receipts,
          recent_trie_nodes |-> f.attempts[i - 1].recent_trie_nodes]

\* C14: in create_block a transaction whose execution reports an error is
\* skipped and the construction goes on: every package run is recorded and the
\* loop moved past it; the block holds exactly the transactions that did not
\* error, in their order; the receipts are one for each of them, none for an
\* errored one; and an errored transaction leaves the block (its state root
\* with it), the receipts and the written entries as they were before it.
C14_ErroredTransactionsSkipped ==
    create.pc # "idle" =>
        LET ok == SelectSeq(create.attempts, Succeeded)
        IN  /\ create.pc # "raised" => Len(create.attempts) = create.i - 1
            /\ create.block.transactions = TransactionsOf(ok)
            /\ Len(create.receipts) = Len(ok)
            /\ \A j \in 1..Len(ok) :
                    create.receipts[j].gas_used = GasUsedBy(SubSeq(ok, 1, j))
            /\ \A i \in 1..Len(create.attempts) :
                    Errored(create.attempts[i]) =>
                        /\ create.attempts[i].block = LocalsBefore(create, i).block
                        /\ create.attempts[i].receipts = LocalsBefore(create, i).receipts
                        /\ create.attempts[i].recent_trie_nodes
                                = LocalsBefore(create, i).recent_trie_nodes

\* C14 witness: create_block returned a block after a transaction that errored
\* and a later one that did not
C14_Witness ==
    /\ create.pc = "returned"
    /\ Len(create.attempts) = 2
    /\ Errored(create.attempts[1])
    /\ Succeeded(create.attempts[2])
    /\ Len(create.block.transactions) = 1

\* The account view the parent's state becomes by the attempts that did not
\* error, in their order
RECURSIVE Replay(_)
Replay(attempts) ==
    IF attempts = <<>> THEN GenesisAccounts
    ELSE LET earlier == SubSeq(attempts, 1, Len(attempts) - 1)
             a == attempts[Len(attempts)]
         IN  IF Succeeded(a)
             THEN ExecuteTransaction(Replay(earlier), a.transaction, a.interp)
             ELSE Replay(earlier)

\* The entries written by the attempts that did not error
RECURSIVE WrittenBy(_)
WrittenBy(attempts) ==
    IF attempts = <<>> THEN EmptyDict
    ELSE LET earlier == SubSeq(attempts, 1, Len(attempts) - 1)
         IN  IF Succeeded(attempts[Len(attempts)])
             THEN [k \in DOMAIN WrittenBy(earlier) \cup {StateRoot(Replay(attempts))} |->
                      IF k = StateRoot(Replay(attempts)) THEN Replay(attempts)
                      ELSE WrittenBy(earlier)[k]]
             ELSE WrittenBy(earlier)

\* C15: in create_block every transaction runs on a store that holds its own
\* witness and every entry written by the earlier transactions of the block
\* that did not error, an earlier write standing for its key where the witness
\* has the key too; so a transaction after one that did not error runs on the
\* state the earlier ones left, a Spend after a Transfer that did not error
\* is not refused, and the block returned is rooted at the state all of them
\* left, in list order, finalized.
C15_EarlierWritesVisible ==
    create.pc # "idle" =>
        /\ \A i \in 1..Len(create.attempts) :
            LET a == create.attempts[i]
                earlier == SubSeq(create.attempts, 1, i - 1)
                written == WrittenBy(earlier)
                own == create.given[i].witness
            IN  /\ DOMAIN a.witness_db = DOMAIN own \cup DOMAIN written
                /\ \A k \in DOMAIN a.witness_db :
                        a.witness_db[k] = IF k \in DOMAIN written THEN written[k] ELSE own[k]
                /\ SelectSeq(earlier, Succeeded) # <<>> => a.accounts = Replay(earlier)
        /\ ( /\ Len(create.attempts) = 1
             /\ create.attempts[1].transaction = Transfer
             /\ Succeeded(create.attempts[1])
             /\ Len(create.given) = 2
             /\ create.given[2].transaction = Spend ) => create.pc # "raised"
        /\ create.pc = "returned" =>
                create.block.header.state_root
                    = StateRoot(finalize_block(Replay(create.attempts), create.block).accounts)

\* C15 witness: a block was returned for a Transfer and then a Spend, neither
\* of which errored, the Spend given a witness holding a stale entry under the
\* root the Transfer led to
C15_Witness ==
    /\ create.pc = "returned"
    /\ Len(create.attempts) = 2
    /\ create.attempts[1].transaction = Transfer /\ Succeeded(create.attempts[1])
    /\ create.attempts[2].transaction = Spend /\ Succeeded(create.attempts[2])
    /\ create.given[2].witness = StaleWitness
    /\ create.attempts[2].accounts # GenesisAccounts

\* The block produced by the last attempt that did not error; the empty block
\* create_block started from if there is none
LastProducedBlock(f) ==
    LET ok == SelectSeq(f.attempts, Succeeded)
    IN  IF ok = <<>> THEN LocalsBefore(f, 1).block ELSE ok[Len(ok)].block

FinalizeRan == create.pc # "idle" /\ create.finalizes # <<>>

\* C16: create_block runs finalize_block exactly once, after every package was
\* attempted, on the block produced by the last transaction that was not
\* skipped (the empty block it started from when all were skipped or none was
\* given), and the store it finalizes against holds the state the state_root
\* of that block refers to, however many transactions were skipped.
C16_FinalizeOnceOverRootedStore ==
    FinalizeRan =>
        /\ Len(create.finalizes) = 1
        /\ create.i = Len(create.packages) + 1
        /\ Len(create.attempts) = Len(create.packages)
        /\ create.finalizes[1].block = LastProducedBlock(create)
        /\ create.finalizes[1].block.header.state_root
                \in DOMAIN create.finalizes[1].witness_db

----------------------------------------------------------------------------
(* eth/vm/forks/petersburg: PetersburgVM.finalize_block                     *)

EIP1234_BLOCK_REWARD == 2       \* 2 * denoms.ether, in ether
EIP1789_DEVFUND_REWARD == 0
EIP1789_DEVFUND_BENEFICIARY == ""

get_block_reward == EIP1234_BLOCK_REWARD
get_devfund_reward == EIP1789_DEVFUND_REWARD
get_devfund_beneficiary == EIP1789_DEVFUND_BENEFICIARY

\* The accounts of a PetersburgVM's state: the beneficiary's is one of them
PetersburgAddresses == Addresses \cup {EIP1789_DEVFUND_BENEFICIARY}

\* The builtin super called with one argument that is not a class
TypeError(m) == [kind |-> "TypeError", msg |-> m]

\* finalize_block of the parent fork (ByzantiumVM): the coinbase is credited
\* with the block reward of the VM and a bonus for each uncle, the block is
\* rooted at the account view that results and returned
parent_finalize_block(db, blk) ==
    LET block_reward == get_block_reward + Len(blk.uncles) * NephewReward
        rewarded == delta_balance(db, blk.header.coinbase, block_reward)
    IN  [outcome |-> Ok, account_db |-> rewarded,
         result |-> <<[blk EXCEPT !.header.state_root = StateRoot(rewarded)]>>]

\* PetersburgVM.finalize_block(block): the beneficiary is credited, then
\* super(block) is evaluated and returned. super(block) is no call of the
\* parent's finalize_block: block is not a class, and the builtin raises.
petersburg_finalize_block(db, blk) ==
    LET devfund_reward == get_devfund_reward
        devfund_beneficiary == get_devfund_beneficiary
        credited == delta_balance(db, devfund_beneficiary, devfund_reward)
    IN  [outcome |-> TypeError("super() argument 1 must be type"),
         account_db |-> credited, result |-> <<>>]

----------------------------------------------------------------------------
(* Specification SpecFork: finalize_block on a PetersburgVM                 *)

\* The blocks finalized: either coinbase, without uncles or with one
ForkBlocks ==
    {[InProgressBlock(GenesisAccounts) EXCEPT !.header.coinbase = coinbase,
                                              !.uncles = uncles] :
        coinbase \in Addresses, uncles \in {<<>>, <<UncleOk>>}}

InitFork ==
    /\ headers = StoredHeaders(GenesisAccounts)
    /\ states = {GenesisAccounts}
    /\ block = InProgressBlock(GenesisAccounts)
    /\ temp = NoTemp
    /\ create = NoCreate
    /\ account_db \in [PetersburgAddresses -> [balance : 0..MaxBal, nonce : {0}]]
    /\ finalized = 0
    /\ last = NoCall

FinalizeBlock ==
    /\ last = NoCall
    /\ \E blk \in ForkBlocks :
        LET r == petersburg_finalize_block(account_db, blk)
        IN  /\ account_db' = r.account_db
            /\ last' = [op |-> "finalize_block", blk |-> blk, outcome |-> r.outcome,
                        result |-> r.result, before |-> account_db]
    /\ UNCHANGED <<headers, states, block, temp, create, finalized>>

NextFork == FinalizeBlock

SpecFork == InitFork /\ [][NextFork]_vars

\* C17: PetersburgVM.finalize_block credits the devfund beneficiary with the
\* devfund reward, then invokes the parent fork's finalize_block on the same
\* block and returns its result, so the block reward and the uncle bonus are
\* credited as well.
C17_FinalizeComposesParent ==
    last.op = "finalize_block" =>
        LET credited == delta_balance(last.before, get_devfund_beneficiary,
                                      get_devfund_reward)
            parent == parent_finalize_block(credited, last.blk)
        IN  /\ last.outcome = Ok
            /\ last.result = parent.result
            /\ account_db = parent.account_db
            /\ account_db[last.blk.header.coinbase].balance
                    >= last.before[last.blk.header.coinbase].balance + get_block_reward

----------------------------------------------------------------------------
(* VM.execute_bytecode *)

ZERO_ADDRESS == "zero"
CREATE_CONTRACT_ADDRESS == "create"

\* The names a VM instance has: those of the class and of __init__, the
\* properties, the methods
VMAttributes ==
    {"chaindb", "_block_class", "_state_class", "block", "logger", "state",
     "previous_hashes", "apply_transaction", "execute_bytecode", "import_block",
     "mine_block", "pack_block", "state_in_temp_block", "create_block",
     "validate_block", "validate_uncle", "get_prev_hashes", "configure_header",
     "get_state", "clear_journal"}

\* A validator applied to self.<name>: the attribute is looked up first. An
\* attribute of the VM, if it had one of the name, is none of the arguments.
ValidateSelfAttribute(name) ==
    IF name \in VMAttributes THEN Ok ELSE AttributeError(name)

\* execute_bytecode, "Validate the inputs": the first of the five to fail
ValidateInputs ==
    LET checks == <<ValidateSelfAttribute("gas_price"), ValidateSelfAttribute("gas"),
                    ValidateSelfAttribute("to"), ValidateSelfAttribute("value"),
                    ValidateSelfAttribute("data")>>
        failed == {i \in 1..Len(checks) : checks[i] # Ok}
    IN  IF failed = {} THEN Ok
        ELSE checks[CHOOSE i \in failed : \A j \in failed : i <= j]

generate_contract_address(sender, nonce) == <<sender, nonce>>

\* An argument given as None is the empty set, any other the set of its value
OrDefault(argument, default) ==
    IF argument = {} THEN default ELSE CHOOSE v \in argument : TRUE

\* The message values execute_bytecode works with once the defaults are in
EffectiveArgs(blk, args) ==
    [gas |-> OrDefault(args.gas, blk.header.gas_limit),
     gas_price |-> OrDefault(args.gas_price, 1),
     to |-> OrDefault(args.to, ZERO_ADDRESS),
     sender |-> OrDefault(args.sender, ZERO_ADDRESS),
     value |-> OrDefault(args.value, 0)]

\* execute_bytecode(bytecode, gas, gas_price, to, sender, value, data, origin,
\* code_address): the outcome, the account view the state is left with, and
\* the computation returned (how it was run, and its message)
execute_bytecode(acc, blk, args) ==
    LET e == EffectiveArgs(blk, args)
        validated == ValidateInputs
        gas_fee == e.gas * e.gas_price
        bought == increment_nonce(delta_balance(acc, e.sender, 0 - gas_fee), e.sender)
        is_create == e.to = CREATE_CONTRACT_ADDRESS
        contract_address ==
            IF is_create
            THEN <<generate_contract_address(e.sender, bought[e.sender].nonce - 1)>>
            ELSE <<>>
        message == [gas |-> e.gas, gas_price |-> e.gas_price, to |-> e.to,
                    sender |-> e.sender, value |-> e.value,
                    create_address |-> contract_address]
    IN  IF validated # Ok
        THEN [outcome |-> validated, accounts |-> acc, computation |-> <<>>]
        ELSE [outcome |-> Ok, accounts |-> bought,
              computation |-> <<[applied |-> IF is_create THEN "apply_create_message"
                                             ELSE "apply_message",
                                 message |-> message]>>]

----------------------------------------------------------------------------
(* Specification SpecExec: execute_bytecode on a VM *)

\* The accounts of the VM's state: a1, a2 and the zero address
ExecAccounts ==
    [a \in Addresses \cup {ZERO_ADDRESS} |->
        [balance |-> IF a = "a1" THEN 6 ELSE 1, nonce |-> 0]]

ExecArgs ==
    [gas : {{}, {1}, {3}}, gas_price : {{}, {1}, {0 - 1}},
     to : {{}, {"a2"}, {CREATE_CONTRACT_ADDRESS}},
     sender : {{}, {"a1"}}, value : {{}, {1}}]

InitExec ==
    /\ headers = StoredHeaders(ExecAccounts)
    /\ states = {ExecAccounts}
    /\ block = InProgressBlock(ExecAccounts)
    /\ temp = NoTemp
    /\ create = NoCreate
    /\ account_db = NoAccountDb
    /\ finalized = 0
    /\ last = NoCall

\* The state the call worked on is written to the store; the VM's block is not
\* touched
ExecuteBytecode ==
    /\ last = NoCall
    /\ \E args \in ExecArgs :
        LET r == execute_bytecode(AccountsAt(block.header.state_root), block, args)
        IN  /\ states' = states \cup {r.accounts}
            /\ last' = [op |-> "execute_bytecode", args |-> args, outcome |-> r.outcome,
                        accounts |-> r.accounts, computation |-> r.computation,
                        before |-> AccountsAt(block.header.state_root)]
    /\ UNCHANGED <<headers, block, temp, create, account_db, finalized>>

NextExec == ExecuteBytecode

SpecExec == InitExec /\ [][NextExec]_vars

validate_uint256(value) == value >= 0

\* The numeric and shape constraints on the effective message values
EffectiveArgsValid(e) ==
    /\ validate_uint256(e.gas_price)
    /\ validate_uint256(e.gas)
    /\ validate_uint256(e.value)
    /\ e.to \in Addresses \cup {ZERO_ADDRESS, CREATE_CONTRACT_ADDRESS}

\* C18: execute_bytecode validates the effective message values (the arguments
\* with the defaults filled in) before it changes any state: invalid values
\* are refused with a ValidationError and the state stays; valid ones cost the
\* sender exactly gas * gas_price, raise its nonce by exactly one, and the
\* computation returned was run as a creation, at the address derived from
\* the sender and its nonce before the increment, if the recipient is the
\* creation sentinel, and as a call otherwise.
C18_ExecuteBytecodeContract ==
    last.op = "execute_bytecode" =>
        LET e == EffectiveArgs(block, last.args)
        IN  IF ~EffectiveArgsValid(e)
            THEN /\ last.outcome.kind = "ValidationError"
                 /\ last.accounts = last.before
            ELSE /\ last.outcome = Ok
                 /\ last.accounts[e.sender].balance
                        = last.before[e.sender].balance - e.gas * e.gas_price
                 /\ last.accounts[e.sender].nonce = last.before[e.sender].nonce + 1
                 /\ \A a \in DOMAIN last.before \ {e.sender} :
                        last.accounts[a] = last.before[a]
                 /\ Len(last.computation) = 1
                 /\ IF e.to = CREATE_CONTRACT_ADDRESS
                    THEN /\ last.computation[1].applied = "apply_create_message"
                         /\ last.computation[1].message.create_address
                                = <<generate_contract_address(
                                        e.sender, last.before[e.sender].nonce)>>
                    ELSE last.computation[1].applied = "apply_message"

----------------------------------------------------------------------------
(* Claims about the inputs and the context of speculative calls *)

\* C21 (under SpecTemp): the ancestor-hash list handed to the temporary state
\* inside state_in_temp_block never has more than MAX_PREV_HEADER_DEPTH
\* entries, as the list of a regular block never has.
C21_TempPrevHashesBounded ==
    temp.pc = "body" => Len(temp.state.prev_hashes) <= MAX_PREV_HEADER_DEPTH

\* C22 (under SpecCreate): create_block leaves its inputs as the caller gave
\* them: once the call is over, returned or raised, every witness passed in
\* transaction_packages holds exactly the entries it held before the call.
C22_WitnessesUnchanged ==
    create.pc \in {"returned", "raised"} =>
        \A i \in 1..Len(create.given) :
            create.packages[i].witness = create.given[i].witness
====
